---- MODULE Spec2Model ----
(***************************************************************************)
(* Model of CopyfromProjectManagementtoDev.py: a one-shot script that      *)
(* copies the schema and the rows of one table from a source database to a *)
(* destination database over two pyodbc connections (autocommit off).      *)
(*                                                                         *)
(* The script is a linear pipeline; pc is the position of the interpreter. *)
(* Every database call can raise; an uncaught exception ends the process,  *)
(* which closes the connections and rolls back what was not committed.     *)
(***************************************************************************)
EXTENDS Integers, Sequences, FiniteSets, TLC

VARIABLES
    src,              \* the source database: [cols, pk, nrows] of dim.Employees
    pre,              \* the destination database as it was before the run
    dst,              \* the destination database, committed state
    work,             \* the destination as seen by dst_cnx (committed + open transaction)
    identity_insert,  \* session setting of dst_cnx: IDENTITY_INSERT is ON for the table
    log,              \* the calls made on the two connections, in order
    pc,               \* position in the script
    exc,              \* an exception is propagating (inside try/finally)
    cols,             \* line 55
    pk_cols,          \* lines 78-83
    pk_is_clustered,  \* lines 79-81
    schema_exists,    \* line 126
    col_defs,         \* line 132
    insertable_cols,  \* line 133
    has_identity,     \* line 134
    sql_type,         \* line 146: the type declaration last formatted
    create_sql,       \* line 155
    src_select_sql,   \* line 171
    insert_sql,       \* line 177
    cursor,           \* src_cur2: number of rows of the result set already fetched
    rows,             \* line 187: the batch last fetched
    rows_copied,      \* line 185 (unbound before it; 0 stands for that here)
    exists_pk,        \* line 201
    printed           \* line 217: what was written to stdout

vars == << src, pre, dst, work, identity_insert, log, pc, exc, cols, pk_cols,
           pk_is_clustered, schema_exists, col_defs, insertable_cols,
           has_identity, sql_type, create_sql, src_select_sql, insert_sql, cursor, rows,
           rows_copied, exists_pk, printed >>

(***************************************************************************)
(* Program constants.                                                      *)
(***************************************************************************)
SCHEMA == "dim"
TABLE == "Employees"
DST_DB == "Dev"
BATCH == 5000

(***************************************************************************)
(* Bounds of the model.                                                    *)
(***************************************************************************)
\* the source table holds fewer than MaxBatches full batches plus a remainder
MaxBatches == 3
\* longest column metadata list drawn for the table builder
MaxCols == 3

(***************************************************************************)
(* Python values.  None is <<>>, a present value v is <<v>>, for the       *)
(* fields the catalog can return NULL in.                                  *)
(***************************************************************************)
None == << >>
Some(v) == << v >>
Truthy(opt) == opt # None

\* str(v) of an integer that may be None
PyStr(opt) == IF opt = None THEN "None" ELSE ToString(opt[1])

Min(a, b) == IF a <= b THEN a ELSE b

RECURSIVE Join(_, _)
\* sep.join(strs)
Join(sep, strs) ==
    IF strs = << >> THEN ""
    ELSE IF Len(strs) = 1 THEN strs[1]
    ELSE strs[1] \o sep \o Join(sep, Tail(strs))

\* str.lower() on the type names the catalog holds
Lower(s) ==
    CASE s = "NVARCHAR" -> "nvarchar"
      [] s = "Text" -> "text"
      [] s = "DateTime2" -> "datetime2"
      [] OTHER -> s

(***************************************************************************)
(* format_sql_type, lines 87-120.                                          *)
(***************************************************************************)
\* one that halves no length
DeclaredLengthInBytes(dt, max_length) == max_length

\* lines 101-104, 107-110: max_length is in bytes; nvarchar and nchar store
\* 2 bytes per character
DeclaredLength(dt, max_length) ==
    IF dt \in {"nvarchar", "nchar"} THEN max_length \div 2 ELSE max_length

\* one that does not know the sentinel -1
VariableLengthNoMax(dt, max_length) ==
    dt \o "(" \o ToString(DeclaredLength(dt, max_length)) \o ")"

\* lines 98-104: varchar, nvarchar, varbinary
VariableLength(dt, max_length) ==
    IF max_length = -1 THEN dt \o "(MAX)"
    ELSE dt \o "(" \o ToString(DeclaredLength(dt, max_length)) \o ")"

\* one that keeps a scale of 0
TemporalScaleKeepsZero(scale) == IF scale # None THEN scale[1] ELSE 7

\* line 116: s = r.scale if r.scale is not None and r.scale != 0 else 7
TemporalScale(scale) == IF scale # None /\ scale[1] # 0 THEN scale[1] ELSE 7

format_sql_type(r) ==
    LET dt == Lower(r.data_type) IN
    IF dt = "text" THEN "varchar(MAX)"
    ELSE IF dt = "ntext" THEN "nvarchar(MAX)"
    ELSE IF dt = "image" THEN "varbinary(MAX)"
    ELSE IF dt \in {"varchar", "nvarchar", "varbinary"} THEN
        VariableLength(dt, r.max_length)
    ELSE IF dt \in {"char", "nchar", "binary"} THEN
        dt \o "(" \o ToString(DeclaredLength(dt, r.max_length)) \o ")"
    ELSE IF dt \in {"decimal", "numeric"} THEN
        dt \o "(" \o ToString(r.precision) \o "," \o PyStr(r.scale) \o ")"
    ELSE IF dt \in {"datetime2", "datetimeoffset", "time"} THEN
        dt \o "(" \o ToString(TemporalScale(r.scale)) \o ")"
    ELSE dt

(***************************************************************************)
(* The column definition loop, lines 132-153.                              *)
(***************************************************************************)
\* line 137
BracketName(r) == "[" \o r.col_name \o "]"

\* lines 140-142: the clause of a computed column
ComputedClause(r) ==
    LET definition == IF Truthy(r.computed_definition) THEN r.computed_definition[1] ELSE ""
        persisted == IF r.computed_persisted THEN " PERSISTED" ELSE ""
    IN BracketName(r) \o " AS " \o definition \o persisted

\* lines 146-149: the clause of a stored column
StoredClause(r) ==
    LET formatted == format_sql_type(r)
        identity == IF r.is_identity THEN " IDENTITY(1,1)" ELSE ""
        nullability == IF r.is_nullable THEN " NULL" ELSE " NOT NULL"
    IN BracketName(r) \o " " \o formatted \o identity \o nullability

\* one that forgets the `continue` of line 144
LoopBodyNoContinue(acc, r) ==
    IF r.is_computed
    THEN [acc EXCEPT !.col_defs = Append(@, ComputedClause(r)),
                     !.insertable_cols = Append(@, BracketName(r))]
    ELSE [col_defs |-> Append(acc.col_defs, StoredClause(r)),
          insertable_cols |-> Append(acc.insertable_cols, BracketName(r)),
          has_identity |-> acc.has_identity \/ r.is_identity,
          sql_type |-> format_sql_type(r)]

\* lines 137-153: one iteration of `for r in cols`
LoopBody(acc, r) ==
    IF r.is_computed
    THEN [acc EXCEPT !.col_defs = Append(@, ComputedClause(r))]
    ELSE [col_defs |-> Append(acc.col_defs, StoredClause(r)),
          insertable_cols |-> Append(acc.insertable_cols, BracketName(r)),
          has_identity |-> acc.has_identity \/ r.is_identity,
          sql_type |-> format_sql_type(r)]

RECURSIVE ColumnLoop(_, _)
\* lines 132-153: the loop, from the accumulators of lines 132-134
ColumnLoop(acc, cs) ==
    IF cs = << >> THEN acc ELSE ColumnLoop(LoopBody(acc, Head(cs)), Tail(cs))

\* line 155
CreateSql(defs) ==
    "CREATE TABLE [" \o SCHEMA \o "].[" \o TABLE \o "] (\n  " \o Join(",\n  ", defs) \o "\n);"

(***************************************************************************)
(* The source catalog: column metadata records (the rows of meta_sql,      *)
(* lines 32-52) and primary key metadata (lines 58-75).                    *)
(***************************************************************************)
Col(name, type, len, prec, scale, nullable, identity, computed, definition, persisted) ==
    [col_name |-> name, data_type |-> type, max_length |-> len, precision |-> prec,
     scale |-> scale, is_nullable |-> nullable, is_identity |-> identity,
     is_computed |-> computed, computed_definition |-> definition,
     computed_persisted |-> persisted]

\* the tables the pipeline is run on
ScenarioTable ==
    << Col("ID", "int", 4, 10, Some(0), FALSE, TRUE, FALSE, None, FALSE),
       Col("Name", "nvarchar", 100, 0, Some(0), TRUE, FALSE, FALSE, None, FALSE),
       Col("FullName", "nvarchar", 102, 0, Some(0), TRUE, FALSE, TRUE, Some("([Name]+'!')"), TRUE) >>

PlainTable ==
    << Col("Code", "varchar", 10, 0, Some(0), FALSE, FALSE, FALSE, None, FALSE),
       Col("Amount", "decimal", 9, 18, Some(2), TRUE, FALSE, FALSE, None, FALSE) >>

ComputedFirstTable ==
    << Col("Twice", "bigint", 8, 19, Some(0), TRUE, FALSE, TRUE, Some("([ID]*(2))"), FALSE),
       Col("ID", "bigint", 8, 19, Some(0), FALSE, TRUE, FALSE, None, FALSE) >>

SourceTables == { ScenarioTable, PlainTable, ComputedFirstTable }

\* the names of the stored (non-computed) columns of a table, in column order
RECURSIVE StoredNames(_)
StoredNames(cs) ==
    IF cs = << >> THEN << >>
    ELSE IF Head(cs).is_computed THEN StoredNames(Tail(cs))
    ELSE << Head(cs).col_name >> \o StoredNames(Tail(cs))

KeyCol(name, desc) == [col_name |-> name, is_descending_key |-> desc]

\* the key column lists drawn for a table: a one-column key, and a two-column
\* key whose order is not the column order
KeyColumnLists(cs) ==
    LET n == StoredNames(cs) IN
    { << KeyCol(n[1], d) >> : d \in BOOLEAN }
    \cup (IF Len(n) >= 2
          THEN { << KeyCol(n[2], d), KeyCol(n[1], ~d) >> : d \in BOOLEAN }
          ELSE {})

\* index_type 1 is CLUSTERED, 2 is NONCLUSTERED (sys.indexes.type)
PrimaryKeys(cs) ==
    { None } \cup { Some([index_type |-> t, key_cols |-> k]) :
                        t \in {1, 2}, k \in KeyColumnLists(cs) }

\* the numbers of rows drawn for the source table
RowCounts == { k * BATCH + r : k \in 0 .. MaxBatches - 1, r \in {0, 2000} }

Sources ==
    { [cols |-> c, pk |-> p, nrows |-> n] :
        c \in SourceTables, p \in UNION { PrimaryKeys(t) : t \in SourceTables },
        n \in RowCounts }

(***************************************************************************)
(* The destination database.  A table is its declaration clauses, its rows *)
(* and its primary key constraint.  Rows are kept as segments: rows lo..hi *)
(* of the source result set, with the column list they were read by        *)
(* (src_cols) and the column list they were written to (dst_cols).         *)
(***************************************************************************)
AbsentTable == [exists |-> FALSE, col_defs |-> << >>, rows |-> << >>, pk |-> None]

Segment(lo, hi, selected, inserted) ==
    [lo |-> lo, hi |-> hi, src_cols |-> selected, dst_cols |-> inserted]

\* a table left by an earlier run against an older source
OldTable ==
    [exists |-> TRUE,
     col_defs |-> << "[ID] int NOT NULL", "[Title] varchar(20) NULL" >>,
     rows |-> << Segment(1, 3, << "[ID]", "[Title]" >>, << "[ID]", "[Title]" >>) >>,
     pk |-> Some([name |-> "PK_dim_Employees", clustered |-> "NONCLUSTERED",
                  cols_ddl |-> "[Title] DESC"])]

PreStates ==
    { [schema |-> FALSE, table |-> AbsentTable],
      [schema |-> TRUE, table |-> AbsentTable],
      [schema |-> TRUE, table |-> OldTable] }

\* number of rows of a table
RECURSIVE RowCount(_)
RowCount(segs) ==
    IF segs = << >> THEN 0
    ELSE (Head(segs).hi - Head(segs).lo + 1) + RowCount(Tail(segs))

(***************************************************************************)
(* Calls on the connections.                                               *)
(***************************************************************************)
Call(conn, op, ok) == [conn |-> conn, op |-> op, ok |-> ok]

\* fetchmany's result: rows lo..hi of the result set; empty when hi < lo
Batch(lo, hi) == [lo |-> lo, hi |-> hi]
BatchLen(b) == IF b.hi < b.lo THEN 0 ELSE b.hi - b.lo + 1
EmptyBatch == Batch(1, 0)

\* a SQL text with the column list it was built from
Statement(text, columns, nparams) == [text |-> text, cols |-> columns, placeholders |-> nparams]
NoStatement == Statement("", << >>, 0)

Init ==
    /\ src \in { s \in Sources : s.pk \in PrimaryKeys(s.cols) }
    /\ pre \in PreStates
    /\ dst = pre
    /\ work = pre
    /\ identity_insert = FALSE
    /\ log = << >>
    /\ pc = "read_cols"
    /\ exc = FALSE
    /\ cols = << >>
    /\ pk_cols = << >>
    /\ pk_is_clustered = FALSE
    /\ schema_exists = FALSE
    /\ col_defs = << >>
    /\ insertable_cols = << >>
    /\ has_identity = FALSE
    /\ sql_type = ""
    /\ create_sql = ""
    /\ src_select_sql = NoStatement
    /\ insert_sql = NoStatement
    /\ cursor = 0
    /\ rows = EmptyBatch
    /\ rows_copied = 0
    /\ exists_pk = FALSE
    /\ printed = None

(***************************************************************************)
(* What the destination engine does.                                       *)
(***************************************************************************)
\* the outcomes of `execute(...)` followed by `commit()`: both succeed, or
\* the one named raises
ExecuteCommit == { "ok", "execute", "commit" }

\* CREATE TABLE of the clauses `defs`: a new empty table without constraints
NewTable(defs) == [exists |-> TRUE, col_defs |-> defs, rows |-> << >>, pk |-> None]

\* the rows a failing executemany leaves in the open transaction: the
\* parameter sets before the failing one were executed
PartialPrefixes(n) == { 0, 1, n - 1 } \cap (0 .. n - 1)

\* INSERT of rows lo..hi
WithRows(db, lo, hi, selected, inserted) ==
    IF hi < lo THEN db
    ELSE [db EXCEPT !.table.rows = Append(@, Segment(lo, hi, selected, inserted))]

(***************************************************************************)
(* 1) Read source schema, lines 54-83.                                     *)
(***************************************************************************)
\* line 55: cols = src_cur.execute(meta_sql, SCHEMA, TABLE).fetchall()
ReadCols ==
    /\ pc = "read_cols"
    /\ \E ok \in BOOLEAN :
        /\ log' = Append(log, Call("src", "SELECT_COLUMNS", ok))
        /\ cols' = IF ok THEN src.cols ELSE cols
        /\ pc' = IF ok THEN "read_pk" ELSE "failed"
    /\ UNCHANGED << src, pre, dst, work, identity_insert, exc, pk_cols,
                    pk_is_clustered, schema_exists, col_defs, insertable_cols,
                    has_identity, sql_type, create_sql, src_select_sql, insert_sql, cursor,
                    rows, rows_copied, exists_pk, printed >>

\* lines 82-83: the (col_name, is_descending) pairs of the key columns
PkPairs(key_cols) ==
    [ i \in 1 .. Len(key_cols) |-> << key_cols[i].col_name, key_cols[i].is_descending_key >> ]

\* lines 77-83: pk_row, pk_cols, pk_is_clustered
ReadPk ==
    /\ pc = "read_pk"
    /\ \E outcome \in (IF src.pk = None THEN { "ok", "info" } ELSE { "ok", "info", "cols" }) :
        /\ log' = IF outcome = "info" THEN Append(log, Call("src", "SELECT_PK_INFO", FALSE))
                  ELSE IF src.pk = None THEN Append(log, Call("src", "SELECT_PK_INFO", TRUE))
                  ELSE log \o << Call("src", "SELECT_PK_INFO", TRUE),
                                 Call("src", "SELECT_PK_COLS", outcome = "ok") >>
        /\ pk_is_clustered' = IF outcome # "info" /\ src.pk # None
                              THEN (src.pk[1].index_type = 1) ELSE pk_is_clustered
        /\ pk_cols' = IF outcome = "ok" /\ src.pk # None
                      THEN PkPairs(src.pk[1].key_cols) ELSE pk_cols
        /\ pc' = IF outcome = "ok" THEN "check_schema" ELSE "failed"
    /\ UNCHANGED << src, pre, dst, work, identity_insert, exc, cols,
                    schema_exists, col_defs, insertable_cols,
                    has_identity, sql_type, create_sql, src_select_sql, insert_sql, cursor,
                    rows, rows_copied, exists_pk, printed >>

(***************************************************************************)
(* 2) Create schema and table in the destination, lines 123-166.           *)
(***************************************************************************)
\* one that creates the schema whatever the existence query found
SchemaAlwaysCreated(found) == TRUE

\* line 127: if not schema_exists
SchemaMissing(found) == ~found

\* lines 126-127: schema_exists = ...fetchone(); if not schema_exists
CheckSchema ==
    /\ pc = "check_schema"
    /\ \E ok \in BOOLEAN :
        /\ log' = Append(log, Call("dst", "SELECT_SCHEMA", ok))
        /\ schema_exists' = IF ok THEN work.schema ELSE schema_exists
        /\ pc' = IF ~ok THEN "failed"
                 ELSE IF SchemaMissing(schema_exists') THEN "create_schema" ELSE "build"
    /\ UNCHANGED << src, pre, dst, work, identity_insert, exc, cols, pk_cols,
                    pk_is_clustered, col_defs, insertable_cols,
                    has_identity, sql_type, create_sql, src_select_sql, insert_sql, cursor,
                    rows, rows_copied, exists_pk, printed >>

\* the calls logged by execute(op) followed by commit()
Logged(op, outcome) ==
    IF outcome = "execute" THEN << Call("dst", op, FALSE) >>
    ELSE << Call("dst", op, TRUE), Call("dst", "COMMIT", outcome = "ok") >>

\* one that goes on after a failed statement
GoesOnAfterFailure(outcome, next) == next

\* lines 128-129, 158-166: nothing catches what execute or commit raises, so
\* the script goes on to `next` only when both succeeded
AfterDdl(outcome, next) == IF outcome = "ok" THEN next ELSE "failed"

\* lines 128-129: CREATE SCHEMA, commit
CreateSchema ==
    /\ pc = "create_schema"
    /\ \E outcome \in ExecuteCommit :
        /\ log' = log \o Logged("CREATE_SCHEMA", outcome)
        /\ dst' = IF outcome = "ok" THEN [work EXCEPT !.schema = TRUE] ELSE dst
        /\ work' = dst'
        /\ pc' = AfterDdl(outcome, "build")
    /\ UNCHANGED << src, pre, identity_insert, exc, cols, pk_cols,
                    pk_is_clustered, schema_exists, col_defs, insertable_cols,
                    has_identity, sql_type, create_sql, src_select_sql, insert_sql, cursor,
                    rows, rows_copied, exists_pk, printed >>

\* lines 132-155: col_defs, insertable_cols, has_identity, create_sql
BuildColumns ==
    /\ pc = "build"
    /\ LET acc == ColumnLoop([col_defs |-> << >>, insertable_cols |-> << >>,
                              has_identity |-> FALSE, sql_type |-> sql_type], cols)
       IN /\ col_defs' = acc.col_defs
          /\ insertable_cols' = acc.insertable_cols
          /\ has_identity' = acc.has_identity
          /\ sql_type' = acc.sql_type
          /\ create_sql' = CreateSql(acc.col_defs)
    /\ pc' = "drop_table"
    /\ UNCHANGED << src, pre, dst, work, identity_insert, log, exc, cols, pk_cols,
                    pk_is_clustered, schema_exists, src_select_sql, insert_sql,
                    cursor, rows, rows_copied, exists_pk, printed >>

\* one that leaves the table where it is
DropSkipped(db) == db

\* lines 159-160: IF OBJECT_ID(...) IS NOT NULL DROP TABLE: the table is gone
\* with its rows and constraints, whether or not there was one
Dropped(db) == [db EXCEPT !.table = AbsentTable]

\* lines 158-162: IF OBJECT_ID(...) IS NOT NULL DROP TABLE, commit
DropTable ==
    /\ pc = "drop_table"
    /\ \E outcome \in ExecuteCommit :
        /\ log' = log \o Logged("DROP_TABLE", outcome)
        /\ dst' = IF outcome = "ok" THEN Dropped(work) ELSE dst
        /\ work' = dst'
        /\ pc' = AfterDdl(outcome, "create_table")
    /\ UNCHANGED << src, pre, identity_insert, exc, cols, pk_cols,
                    pk_is_clustered, schema_exists, col_defs, insertable_cols,
                    has_identity, sql_type, create_sql, src_select_sql, insert_sql, cursor,
                    rows, rows_copied, exists_pk, printed >>

\* lines 165-166: execute(create_sql), commit
\* (the engine refuses to create a table that exists)
CreateTable ==
    /\ pc = "create_table"
    /\ \E outcome \in (IF work.table.exists THEN { "execute" } ELSE ExecuteCommit) :
        /\ log' = log \o Logged("CREATE_TABLE", outcome)
        /\ dst' = IF outcome = "ok" THEN [work EXCEPT !.table = NewTable(col_defs)] ELSE dst
        /\ work' = dst'
        /\ pc' = AfterDdl(outcome, "build_select")
    /\ UNCHANGED << src, pre, identity_insert, exc, cols, pk_cols,
                    pk_is_clustered, schema_exists, col_defs, insertable_cols,
                    has_identity, sql_type, create_sql, src_select_sql, insert_sql, cursor,
                    rows, rows_copied, exists_pk, printed >>

(***************************************************************************)
(* 3) Copy data in batches, lines 169-197.                                 *)
(***************************************************************************)
QualifiedName == "[" \o SCHEMA \o "].[" \o TABLE \o "]"

\* line 170: the columns joined into src_select_cols
SelectColumns(insertable) == insertable

\* one that lists the INSERT columns in another order than the SELECT
InsertColumnsReversed(selected) ==
    [ i \in 1 .. Len(selected) |-> selected[Len(selected) + 1 - i] ]

\* line 177: INSERT names the columns of src_select_cols again
InsertColumns(selected) == selected

\* line 176: one "?" per insertable column
Placeholders(insertable) == [ i \in 1 .. Len(insertable) |-> "?" ]

\* lines 170-171: src_select_cols, src_select_sql
BuildSelect ==
    /\ pc = "build_select"
    /\ LET selected == SelectColumns(insertable_cols)
       IN src_select_sql' =
            Statement("SELECT " \o Join(", ", selected) \o " FROM " \o QualifiedName,
                      selected, 0)
    /\ pc' = "open_select"
    /\ UNCHANGED << src, pre, dst, work, identity_insert, log, exc, cols, pk_cols,
                    pk_is_clustered, schema_exists, col_defs, insertable_cols,
                    has_identity, sql_type, create_sql, insert_sql, cursor, rows,
                    rows_copied, exists_pk, printed >>

\* lines 173-174: src_cur2.execute(src_select_sql)
OpenSelect ==
    /\ pc = "open_select"
    /\ \E ok \in BOOLEAN :
        /\ log' = Append(log, Call("src", "SELECT_ROWS", ok))
        /\ pc' = IF ok THEN "build_insert" ELSE "failed"
    /\ cursor' = 0
    /\ UNCHANGED << src, pre, dst, work, identity_insert, exc, cols, pk_cols,
                    pk_is_clustered, schema_exists, col_defs, insertable_cols,
                    has_identity, sql_type, create_sql, src_select_sql, insert_sql, rows,
                    rows_copied, exists_pk, printed >>

\* lines 176-179: placeholders, insert_sql
BuildInsert ==
    /\ pc = "build_insert"
    /\ LET inserted == InsertColumns(src_select_sql.cols)
           placeholders == Placeholders(insertable_cols)
       IN insert_sql' =
            Statement("INSERT INTO " \o QualifiedName \o " (" \o Join(", ", inserted)
                          \o ") VALUES (" \o Join(", ", placeholders) \o ")",
                      inserted, Len(placeholders))
    /\ pc' = "identity_on"
    /\ UNCHANGED << src, pre, dst, work, identity_insert, log, exc, cols, pk_cols,
                    pk_is_clustered, schema_exists, col_defs, insertable_cols,
                    has_identity, sql_type, create_sql, src_select_sql, cursor, rows,
                    rows_copied, exists_pk, printed >>

\* lines 181-185: try: if has_identity: SET IDENTITY_INSERT ON; rows_copied = 0
IdentityOn ==
    /\ pc = "identity_on"
    /\ \E ok \in (IF has_identity THEN BOOLEAN ELSE { TRUE }) :
        /\ log' = IF has_identity
                  THEN Append(log, Call("dst", "IDENTITY_INSERT_ON", ok)) ELSE log
        /\ identity_insert' = IF has_identity /\ ok THEN TRUE ELSE identity_insert
        /\ rows_copied' = IF ok THEN 0 ELSE rows_copied
        /\ exc' = ~ok
        /\ pc' = IF ok THEN "fetch" ELSE "finally"
    /\ UNCHANGED << src, pre, dst, work, cols, pk_cols,
                    pk_is_clustered, schema_exists, col_defs, insertable_cols,
                    has_identity, sql_type, create_sql, src_select_sql, insert_sql, cursor,
                    rows, exists_pk, printed >>

\* one that reads the whole result set at once
FetchAll(fetched, n, size) == Batch(fetched + 1, n)

\* fetchmany(size) on a result set of n rows of which `fetched` were read
FetchMany(fetched, n, size) == Batch(fetched + 1, Min(fetched + size, n))

\* one that never breaks out of the loop
LoopNeverBreaks(b) == FALSE

\* one that stops at the first batch shorter than BATCH
LoopEndsOnShortBatch(b) == BatchLen(b) < BATCH

\* line 188: if not rows: break
LoopEnds(b) == BatchLen(b) = 0

\* lines 187-189: rows = src_cur2.fetchmany(BATCH); if not rows: break
Fetch ==
    /\ pc = "fetch"
    /\ \E ok \in BOOLEAN :
        /\ log' = Append(log, Call("src", "FETCH", ok))
        /\ rows' = IF ok THEN FetchMany(cursor, src.nrows, BATCH) ELSE rows
        /\ cursor' = IF ok THEN cursor + BatchLen(rows') ELSE cursor
        /\ exc' = ~ok
        /\ pc' = IF ~ok THEN "finally"
                 ELSE IF LoopEnds(rows') THEN "finally" ELSE "insert"
    /\ UNCHANGED << src, pre, dst, work, identity_insert, cols, pk_cols,
                    pk_is_clustered, schema_exists, col_defs, insertable_cols,
                    has_identity, sql_type, create_sql, src_select_sql, insert_sql,
                    rows_copied, exists_pk, printed >>

\* one that counts the batch before its commit is known to have succeeded
CountedBeforeCommit(outcome, n, len) == IF outcome # "execute" THEN n + len ELSE n

\* line 192: rows_copied += len(rows), reached only when executemany and
\* commit returned
Counted(outcome, n, len) == IF outcome = "ok" THEN n + len ELSE n

\* lines 190-192: executemany(insert_sql, rows); commit(); rows_copied += len(rows)
InsertBatch ==
    /\ pc = "insert"
    /\ \E outcome \in ExecuteCommit :
        /\ log' = log \o Logged("INSERT", outcome)
        /\ \E kept \in (IF outcome = "execute" THEN PartialPrefixes(BatchLen(rows))
                        ELSE { BatchLen(rows) }) :
             work' = IF outcome = "commit" THEN dst
                     ELSE WithRows(work, rows.lo, rows.lo + kept - 1,
                                   src_select_sql.cols, insert_sql.cols)
        /\ dst' = IF outcome = "ok" THEN work' ELSE dst
        /\ rows_copied' = Counted(outcome, rows_copied, BatchLen(rows))
        /\ exc' = (outcome # "ok")
        /\ pc' = IF outcome = "ok" THEN "fetch" ELSE "finally"
    /\ UNCHANGED << src, pre, identity_insert, cols, pk_cols,
                    pk_is_clustered, schema_exists, col_defs, insertable_cols,
                    has_identity, sql_type, create_sql, src_select_sql, insert_sql, cursor,
                    rows, exists_pk, printed >>

\* one that turns identity-insert off after the loop, not in a finally
CleanupAfterLoopOnly == has_identity /\ ~exc

\* one that turns identity-insert off whether or not it was turned on
CleanupAlways == TRUE

\* one that turns identity-insert off only when turning it on took effect
CleanupIfOn == identity_insert

\* line 195: the condition of the finally block
CleanupNeeded == has_identity

\* one whose finally block swallows the exception of the try block
FinallySwallows(pending, outcome) == outcome # "ok"

\* lines 193-197: leaving the finally block re-raises the exception of the try
\* block, and what the block itself raises propagates
Reraised(pending, outcome) == pending \/ outcome # "ok"

\* lines 194-197: finally: if has_identity: SET IDENTITY_INSERT OFF; commit
\* and then the exception, if one is propagating, leaves the script
Finally ==
    /\ pc = "finally"
    /\ \E outcome \in (IF CleanupNeeded THEN ExecuteCommit ELSE { "ok" }) :
        /\ log' = IF CleanupNeeded THEN log \o Logged("IDENTITY_INSERT_OFF", outcome)
                  ELSE log
        /\ identity_insert' = IF CleanupNeeded /\ outcome # "execute" THEN FALSE
                              ELSE identity_insert
        /\ dst' = IF CleanupNeeded /\ outcome = "ok" THEN work ELSE dst
        /\ exc' = Reraised(exc, outcome)
        /\ work' = IF exc' THEN dst' ELSE work
        /\ pc' = IF exc' THEN "failed" ELSE "check_pk"
    /\ UNCHANGED << src, pre, cols, pk_cols,
                    pk_is_clustered, schema_exists, col_defs, insertable_cols,
                    has_identity, sql_type, create_sql, src_select_sql, insert_sql, cursor,
                    rows, rows_copied, exists_pk, printed >>

(***************************************************************************)
(* 4) Create the primary key in the destination, lines 200-215.            *)
(***************************************************************************)
\* one that runs the stage whether or not the source has a key
PkStageAlways == TRUE

\* line 200: if pk_cols
PkStageNeeded == pk_cols # << >>

\* one that adds the key without looking at the result of the existence query
AddsPkUnchecked(found) == TRUE

\* line 208: if not exists_pk
PkMissing(found) == ~found

\* lines 200-208: exists_pk = ...fetchone(); if not exists_pk
CheckPk ==
    /\ pc = "check_pk"
    /\ \E ok \in (IF PkStageNeeded THEN BOOLEAN ELSE { TRUE }) :
        /\ log' = IF PkStageNeeded THEN Append(log, Call("dst", "SELECT_PK", ok)) ELSE log
        /\ exists_pk' = IF PkStageNeeded /\ ok THEN work.table.pk # None ELSE exists_pk
        /\ pc' = IF ~ok THEN "failed"
                 ELSE IF PkStageNeeded /\ PkMissing(exists_pk') THEN "add_pk" ELSE "print"
    /\ UNCHANGED << src, pre, dst, work, identity_insert, exc, cols, pk_cols,
                    pk_is_clustered, schema_exists, col_defs, insertable_cols,
                    has_identity, sql_type, create_sql, src_select_sql, insert_sql, cursor,
                    rows, rows_copied, printed >>

\* one that declares every key column ascending
ColsDdlAllAscending(pairs) ==
    Join(", ", [ i \in 1 .. Len(pairs) |-> "[" \o pairs[i][1] \o "] ASC" ])

\* lines 209-210: cols_ddl
ColsDdl(pairs) ==
    Join(", ", [ i \in 1 .. Len(pairs) |->
                   "[" \o pairs[i][1] \o "] " \o (IF pairs[i][2] THEN "DESC" ELSE "ASC") ])

\* lines 212-214: the constraint the ALTER TABLE statement declares
PkConstraint ==
    [name |-> "PK_" \o SCHEMA \o "_" \o TABLE,
     clustered |-> IF pk_is_clustered THEN "CLUSTERED" ELSE "NONCLUSTERED",
     cols_ddl |-> ColsDdl(pk_cols)]

\* lines 209-215: ALTER TABLE ... ADD CONSTRAINT ... PRIMARY KEY, commit
\* (the engine refuses a second primary key on a table)
AddPk ==
    /\ pc = "add_pk"
    /\ \E outcome \in (IF work.table.pk # None THEN { "execute" } ELSE ExecuteCommit) :
        /\ log' = log \o Logged("ADD_PRIMARY_KEY", outcome)
        /\ dst' = IF outcome = "ok" THEN [work EXCEPT !.table.pk = Some(PkConstraint)]
                  ELSE dst
        /\ work' = dst'
        /\ pc' = IF outcome = "ok" THEN "print" ELSE "failed"
    /\ UNCHANGED << src, pre, identity_insert, exc, cols, pk_cols,
                    pk_is_clustered, schema_exists, col_defs, insertable_cols,
                    has_identity, sql_type, create_sql, src_select_sql, insert_sql, cursor,
                    rows, rows_copied, exists_pk, printed >>

\* line 217: print(f"Copied {rows_copied} rows to {DST_DB}.{SCHEMA}.{TABLE}")
Report ==
    /\ pc = "print"
    /\ printed' = Some("Copied " \o ToString(rows_copied) \o " rows to "
                          \o DST_DB \o "." \o SCHEMA \o "." \o TABLE)
    /\ pc' = "done"
    /\ UNCHANGED << src, pre, dst, work, identity_insert, log, exc, cols, pk_cols,
                    pk_is_clustered, schema_exists, col_defs, insertable_cols,
                    has_identity, sql_type, create_sql, src_select_sql, insert_sql, cursor,
                    rows, rows_copied, exists_pk >>

Next ==
    \/ ReadCols
    \/ ReadPk
    \/ CheckSchema
    \/ CreateSchema
    \/ BuildColumns
    \/ DropTable
    \/ CreateTable
    \/ BuildSelect
    \/ OpenSelect
    \/ BuildInsert
    \/ IdentityOn
    \/ Fetch
    \/ InsertBatch
    \/ Finally
    \/ CheckPk
    \/ AddPk
    \/ Report

Spec == Init /\ [][Next]_vars

(***************************************************************************)
(* The table builder and the statement builders on every column metadata   *)
(* list of up to MaxCols columns: the pipeline run on a source whose       *)
(* columns are drawn from the lists the catalog can hold (at least one     *)
(* stored column, at most one identity column, no computed identity        *)
(* column).                                                                *)
(***************************************************************************)
ColumnName(i) == "c" \o ToString(i)

ColumnKinds == { "identity", "stored", "persisted", "computed" }

ColumnOfKind(i, kind) ==
    CASE kind = "identity" ->
           Col(ColumnName(i), "int", 4, 10, Some(0), FALSE, TRUE, FALSE, None, FALSE)
      [] kind = "stored" ->
           Col(ColumnName(i), "nvarchar", 100, 0, Some(0), TRUE, FALSE, FALSE, None, FALSE)
      [] kind = "persisted" ->
           Col(ColumnName(i), "int", 4, 10, Some(0), TRUE, FALSE, TRUE, Some("((1)+(1))"), TRUE)
      [] kind = "computed" ->
           Col(ColumnName(i), "int", 4, 10, Some(0), TRUE, FALSE, TRUE, Some("((2)*(3))"), FALSE)

ColumnLists ==
    UNION { { [ i \in 1 .. n |-> ColumnOfKind(i, kinds[i]) ] :
                kinds \in { k \in [ 1 .. n -> ColumnKinds ] :
                              /\ \E i \in 1 .. n : k[i] \in { "identity", "stored" }
                              /\ Cardinality({ i \in 1 .. n : k[i] = "identity" }) <= 1 } } :
            n \in 1 .. MaxCols }

InitCols ==
    /\ src \in { [cols |-> c, pk |-> p, nrows |-> BATCH + 2000] :
                   c \in ColumnLists,
                   p \in { Some([index_type |-> 1,
                                 key_cols |-> << KeyCol(ColumnName(1), FALSE) >>]) } }
    /\ pre = [schema |-> FALSE, table |-> AbsentTable]
    /\ dst = pre
    /\ work = pre
    /\ identity_insert = FALSE
    /\ log = << >>
    /\ pc = "read_cols"
    /\ exc = FALSE
    /\ cols = << >>
    /\ pk_cols = << >>
    /\ pk_is_clustered = FALSE
    /\ schema_exists = FALSE
    /\ col_defs = << >>
    /\ insertable_cols = << >>
    /\ has_identity = FALSE
    /\ sql_type = ""
    /\ create_sql = ""
    /\ src_select_sql = NoStatement
    /\ insert_sql = NoStatement
    /\ cursor = 0
    /\ rows = EmptyBatch
    /\ rows_copied = 0
    /\ exists_pk = FALSE
    /\ printed = None

SpecCols == InitCols /\ [][Next]_vars

(***************************************************************************)
(* The pipeline beside another session of the destination that gives the   *)
(* new table a primary key of its own (the script takes no lock and does   *)
(* not guard against other writers).  The other session cannot alter the   *)
(* table while dst_cnx holds uncommitted changes to it.                    *)
(***************************************************************************)
ForeignPk == [name |-> "PK_Employees_other", clustered |-> "NONCLUSTERED",
              cols_ddl |-> "[Name] ASC"]

OtherSessionAddsPk ==
    /\ pc \in { "identity_on", "fetch", "insert", "finally", "check_pk", "add_pk" }
    /\ work = dst
    /\ dst.table.exists
    /\ dst.table.pk = None
    /\ dst' = [dst EXCEPT !.table.pk = Some(ForeignPk)]
    /\ work' = dst'
    /\ UNCHANGED << src, pre, identity_insert, log, pc, exc, cols, pk_cols,
                    pk_is_clustered, schema_exists, col_defs, insertable_cols,
                    has_identity, sql_type, create_sql, src_select_sql, insert_sql, cursor,
                    rows, rows_copied, exists_pk, printed >>

NextExt == Next \/ OtherSessionAddsPk

SpecExt == Init /\ [][NextExt]_vars

(***************************************************************************)
(* The declaration of one column: the run up to the column loop, on a      *)
(* source table of one stored column whose catalog record is drawn from    *)
(* the types, byte lengths and scales sys.columns holds.                   *)
(***************************************************************************)
TypedCol(type, len, prec, scale) ==
    Col("Value", type, len, prec, scale, TRUE, FALSE, FALSE, None, FALSE)

\* sys.columns.max_length of the character and binary types, -1 for (MAX)
NarrowLengths == { 1, 10, 8000 }
WideLengths == { 2, 100, 8000 }
\* sys.columns.scale of the types with fractional seconds
TemporalScales == { None, Some(0), Some(3), Some(7) }

TypeRecords ==
    { TypedCol(t, 16, 0, Some(0)) : t \in { "text", "ntext", "image", "Text" } }
    \cup { TypedCol(t, l, 0, Some(0)) :
             t \in { "varchar", "varbinary" }, l \in NarrowLengths \cup { -1 } }
    \cup { TypedCol(t, l, 0, Some(0)) :
             t \in { "nvarchar", "NVARCHAR" }, l \in WideLengths \cup { -1 } }
    \cup { TypedCol(t, l, 0, Some(0)) : t \in { "char", "binary" }, l \in NarrowLengths }
    \cup { TypedCol("nchar", l, 0, Some(0)) : l \in WideLengths }
    \cup { TypedCol(t, 9, 18, Some(s)) : t \in { "decimal", "numeric" }, s \in { 0, 2 } }
    \cup { TypedCol(t, 8, 27, s) :
             t \in { "datetime2", "datetimeoffset", "time", "DateTime2" },
             s \in TemporalScales }
    \cup { TypedCol("int", 4, 10, Some(0)), TypedCol("date", 3, 10, Some(0)) }

InitFmt ==
    /\ src \in { [cols |-> << c >>, pk |-> None, nrows |-> 0] : c \in TypeRecords }
    /\ pre = [schema |-> FALSE, table |-> AbsentTable]
    /\ dst = pre
    /\ work = pre
    /\ identity_insert = FALSE
    /\ log = << >>
    /\ pc = "read_cols"
    /\ exc = FALSE
    /\ cols = << >>
    /\ pk_cols = << >>
    /\ pk_is_clustered = FALSE
    /\ schema_exists = FALSE
    /\ col_defs = << >>
    /\ insertable_cols = << >>
    /\ has_identity = FALSE
    /\ sql_type = ""
    /\ create_sql = ""
    /\ src_select_sql = NoStatement
    /\ insert_sql = NoStatement
    /\ cursor = 0
    /\ rows = EmptyBatch
    /\ rows_copied = 0
    /\ exists_pk = FALSE
    /\ printed = None

\* lines 55-155: from the introspection to create_sql
NextFmt ==
    \/ ReadCols
    \/ ReadPk
    \/ CheckSchema
    \/ CreateSchema
    \/ BuildColumns

SpecFmt == InitFmt /\ [][NextFmt]_vars

(***************************************************************************)
(* The script run a second time, on the same source, against the           *)
(* destination the first run left, however that run ended.                 *)
(***************************************************************************)
\* the script has returned or an exception has left it
Ended == pc \in { "done", "failed" }

\* a new process: new connections (a new session of the destination, with
\* IDENTITY_INSERT off and no open transaction) and fresh variables
Rerun ==
    /\ Ended
    /\ pre \in PreStates
    /\ pre' = dst
    /\ work' = dst
    /\ identity_insert' = FALSE
    /\ log' = << >>
    /\ pc' = "read_cols"
    /\ exc' = FALSE
    /\ cols' = << >>
    /\ pk_cols' = << >>
    /\ pk_is_clustered' = FALSE
    /\ schema_exists' = FALSE
    /\ col_defs' = << >>
    /\ insertable_cols' = << >>
    /\ has_identity' = FALSE
    /\ sql_type' = ""
    /\ create_sql' = ""
    /\ src_select_sql' = NoStatement
    /\ insert_sql' = NoStatement
    /\ cursor' = 0
    /\ rows' = EmptyBatch
    /\ rows_copied' = 0
    /\ exists_pk' = FALSE
    /\ printed' = None
    /\ UNCHANGED << src, dst >>

NextTwice == Next \/ Rerun

SpecTwice == Init /\ [][NextTwice]_vars

(***************************************************************************)
(* The script under the interpreter: it executes one statement after the   *)
(* other until the script ends, and every database call returns or raises  *)
(* (the connections have timeouts), so a step that can be taken is taken.  *)
(***************************************************************************)
SpecLive == Spec /\ WF_vars(Next)

(***************************************************************************)
(* Properties.                                                             *)
(***************************************************************************)
\* the places of the calls `op` in the log
Places(op) == { i \in DOMAIN log : log[i].op = op }
Issued(op) == Places(op) # {}
Succeeded(op) == \E i \in Places(op) : log[i].ok
Failed(op) == \E i \in Places(op) : ~log[i].ok

\* the call at place i succeeded and the commit that follows it did too
Committed(i) == log[i].ok /\ i < Len(log) /\ log[i + 1] = Call("dst", "COMMIT", TRUE)

\* the rows of the first n batches of the source, as the loop writes them
FirstBatches(n) ==
    [ j \in 1 .. n |-> Segment((j - 1) * BATCH + 1, Min(j * BATCH, src.nrows),
                               src_select_sql.cols, insert_sql.cols) ]

\* C1 as stated: in every run in which SET IDENTITY_INSERT ON was executed,
\* SET IDENTITY_INSERT OFF is executed and committed before the run ends, and
\* no run ends with identity-insert ON.
C1_AlwaysOffAtEnd ==
    (Ended /\ Succeeded("IDENTITY_INSERT_ON"))
        => /\ identity_insert = FALSE
           /\ \E i \in Places("IDENTITY_INSERT_OFF") : Committed(i)

\* C1, amended: in every run in which SET IDENTITY_INSERT ON was executed,
\* SET IDENTITY_INSERT OFF is issued exactly once, after the ON, before the
\* run ends, however the copy loop was left (empty fetch, failing fetch,
\* failing insert or failing commit of any batch); the run ends with
\* identity-insert OFF unless that OFF statement itself raised, and a commit
\* follows the OFF unless the OFF raised.
C1_OffIssuedOnEveryExit ==
    (Ended /\ Succeeded("IDENTITY_INSERT_ON"))
        => /\ Cardinality(Places("IDENTITY_INSERT_OFF")) = 1
           /\ \A i \in Places("IDENTITY_INSERT_OFF") :
                /\ \E j \in Places("IDENTITY_INSERT_ON") : j < i
                /\ \A j \in Places("INSERT") \cup Places("FETCH") : j < i
                /\ log[i].ok => (i < Len(log) /\ log[i + 1].op = "COMMIT")
                /\ identity_insert = ~log[i].ok

\* C1 witness: the second batch insert raised, and the run ended with
\* identity-insert turned off again
C1_Witness ==
    /\ pc = "failed"
    /\ Succeeded("IDENTITY_INSERT_ON")
    /\ Cardinality(Places("INSERT")) = 2
    /\ Failed("INSERT")
    /\ Succeeded("IDENTITY_INSERT_OFF")
    /\ identity_insert = FALSE

\* C2 as stated: when the bulk insert of batch k raises, the committed rows
\* of the destination table at the end of the run are exactly the rows of
\* batches 1..k-1, with or without an identity column.
C2_OnlyEarlierBatchesRemain ==
    (pc = "failed" /\ Failed("INSERT"))
        => dst.table.rows = FirstBatches(Cardinality(Places("INSERT")) - 1)

\* the column list a copy of the table `cs` reads and writes: its stored
\* columns, bracketed, in column order
Projection(cs) == [ i \in 1 .. Len(StoredNames(cs)) |-> "[" \o StoredNames(cs)[i] \o "]" ]

\* how many times row i of the source is in the table
Copies(segs, i) == Cardinality({ k \in DOMAIN segs : segs[k].lo <= i /\ i <= segs[k].hi })

\* C3: in every run that completes without error the destination table
\* holds the N source rows projected on the insertable columns, each exactly
\* once, and the count reported is N.
C3_AllRowsCopiedOnce ==
    pc = "done"
        => /\ dst.table.exists
           /\ RowCount(dst.table.rows) = src.nrows
           /\ \A i \in 1 .. src.nrows : Copies(dst.table.rows, i) = 1
           /\ \A k \in DOMAIN dst.table.rows :
                /\ dst.table.rows[k].src_cols = Projection(src.cols)
                /\ dst.table.rows[k].dst_cols = Projection(src.cols)
           /\ rows_copied = src.nrows
           /\ printed = Some("Copied " \o ToString(src.nrows) \o " rows to Dev.dim.Employees")

\* C3 witness: the 12000-row table was copied
C3_Witness ==
    /\ pc = "done"
    /\ src.nrows = 2 * BATCH + 2000
    /\ rows_copied = 12000
    /\ RowCount(dst.table.rows) = 12000

\* the copy loop was left by the break of line 189
LoopCompleted ==
    \/ pc \in { "check_pk", "add_pk", "print", "done" }
    \/ pc = "finally" /\ ~exc

BatchesOf(n) == (n + BATCH - 1) \div BATCH

\* C4: a fetch returns at most BATCH rows; every non-empty batch is inserted
\* and committed before the next fetch, so never more than the current batch
\* is uncommitted; a loop that ends on the empty fetch made ceil(N/BATCH)
\* insert+commit pairs, of BATCH rows each but for the last.
C4_BatchPerCommit ==
    /\ BatchLen(rows) <= BATCH
    /\ RowCount(work.table.rows) - RowCount(dst.table.rows) \in 0 .. BatchLen(rows)
    /\ pc = "fetch" => work = dst
    /\ \A i \in Places("INSERT") : log[i - 1] = Call("src", "FETCH", TRUE)
    /\ \A i \in Places("FETCH") :
         (\E j \in Places("FETCH") : j < i)
            => /\ log[i - 3] = Call("src", "FETCH", TRUE)
               /\ log[i - 2] = Call("dst", "INSERT", TRUE)
               /\ log[i - 1] = Call("dst", "COMMIT", TRUE)
    /\ LoopCompleted
         => /\ Cardinality({ i \in Places("INSERT") : Committed(i) }) = BatchesOf(src.nrows)
            /\ Cardinality(Places("INSERT")) = BatchesOf(src.nrows)
            /\ dst.table.rows = FirstBatches(BatchesOf(src.nrows))
            /\ \A k \in 1 .. Len(dst.table.rows) - 1 :
                 dst.table.rows[k].hi - dst.table.rows[k].lo + 1 = BATCH

\* C4 witness: 12000 rows went over in batches of 5000, 5000 and 2000
C4_Witness ==
    /\ pc = "done"
    /\ src.nrows = 12000
    /\ [ k \in DOMAIN dst.table.rows |-> dst.table.rows[k].hi - dst.table.rows[k].lo + 1 ]
         = << 5000, 5000, 2000 >>
    /\ Cardinality({ i \in Places("INSERT") : Committed(i) }) = 3

\* the statements of the destination's wire contract, by stage
StageOps == { "CREATE_SCHEMA", "DROP_TABLE", "CREATE_TABLE", "IDENTITY_INSERT_ON",
              "INSERT", "IDENTITY_INSERT_OFF", "ADD_PRIMARY_KEY" }

Rank(op) ==
    CASE op = "CREATE_SCHEMA" -> 1
      [] op = "DROP_TABLE" -> 2
      [] op = "CREATE_TABLE" -> 3
      [] op = "IDENTITY_INSERT_ON" -> 4
      [] op = "INSERT" -> 5
      [] op = "IDENTITY_INSERT_OFF" -> 6
      [] op = "ADD_PRIMARY_KEY" -> 7

StagePlaces == { i \in DOMAIN log : log[i].op \in StageOps }

\* the source table has a stored identity column
HasIdentityColumn(cs) == \E i \in DOMAIN cs : cs[i].is_identity /\ ~cs[i].is_computed

\* C5: the statements sent to the destination come in the order CREATE
\* SCHEMA (only if the schema was absent), DROP TABLE, CREATE TABLE, SET
\* IDENTITY_INSERT ON (only with an identity column), the INSERTs, SET
\* IDENTITY_INSERT OFF (only with an identity column), ADD PRIMARY KEY (only
\* if the source has a key and the destination was found to have none); none
\* but INSERT is issued twice; a run that completes issued every one of them
\* that its case calls for.
C5_StatementOrder ==
    /\ \A i, j \in StagePlaces : i < j => Rank(log[i].op) <= Rank(log[j].op)
    /\ \A op \in StageOps \ { "INSERT" } : Cardinality(Places(op)) <= 1
    /\ Issued("CREATE_SCHEMA") => ~pre.schema
    /\ Issued("IDENTITY_INSERT_ON") => HasIdentityColumn(src.cols)
    /\ Issued("IDENTITY_INSERT_OFF") => HasIdentityColumn(src.cols)
    /\ Issued("ADD_PRIMARY_KEY")
         => /\ src.pk # None
            /\ ~exists_pk
            /\ \E i \in Places("SELECT_PK") :
                 log[i].ok /\ \A j \in Places("ADD_PRIMARY_KEY") : i < j
    /\ pc = "done"
         => /\ Issued("CREATE_SCHEMA") <=> ~pre.schema
            /\ Issued("DROP_TABLE") /\ Issued("CREATE_TABLE")
            /\ Issued("IDENTITY_INSERT_ON") <=> HasIdentityColumn(src.cols)
            /\ Issued("IDENTITY_INSERT_OFF") <=> HasIdentityColumn(src.cols)
            /\ Cardinality(Places("INSERT")) = BatchesOf(src.nrows)
            /\ Issued("ADD_PRIMARY_KEY") <=> src.pk # None

\* C5 witness: a run that issued all seven kinds of statement
C5_Witness ==
    /\ pc = "done"
    /\ \A op \in StageOps : Issued(op)
    /\ Cardinality(Places("INSERT")) >= 2

\* the call at place i is a failed CREATE SCHEMA, DROP TABLE or CREATE
\* TABLE, or the failed commit of one
DdlFailedAt(i) ==
    /\ ~log[i].ok
    /\ \/ log[i].op \in { "CREATE_SCHEMA", "DROP_TABLE", "CREATE_TABLE" }
       \/ /\ log[i].op = "COMMIT"
          /\ log[i - 1].op \in { "CREATE_SCHEMA", "DROP_TABLE", "CREATE_TABLE" }

\* C6: when CREATE SCHEMA, DROP TABLE or CREATE TABLE fails the run ends
\* there, with no source SELECT, no SET IDENTITY_INSERT and no INSERT issued,
\* and the destination table absent or as it was before the run; no INSERT
\* is executed unless CREATE TABLE succeeded and was committed before it.
C6_DdlFailureAbortsBeforeCopy ==
    /\ \A i \in DOMAIN log :
         DdlFailedAt(i)
            => /\ i = Len(log)
               /\ pc = "failed"
               /\ ~Issued("SELECT_ROWS") /\ ~Issued("FETCH")
               /\ ~Issued("IDENTITY_INSERT_ON") /\ ~Issued("INSERT")
               /\ dst.table \in { AbsentTable, pre.table }
               /\ work = dst
    /\ \A i \in Places("INSERT") : \E j \in Places("CREATE_TABLE") : j < i /\ Committed(j)

\* C6 witness: CREATE TABLE failed after the old table had been dropped
C6_Witness ==
    /\ pc = "failed"
    /\ Failed("CREATE_TABLE")
    /\ pre.table = OldTable
    /\ dst.table = AbsentTable

\* C7: the column list of the source SELECT and the column list of the
\* destination INSERT are the same sequence, the INSERT has one placeholder
\* per insertable column, and so every row written has each value in the
\* column it was read from.
C7_SelectAndInsertAligned ==
    /\ insert_sql # NoStatement
         => /\ src_select_sql.cols = insert_sql.cols
            /\ src_select_sql.cols = insertable_cols
            /\ insert_sql.placeholders = Len(insertable_cols)
            /\ src_select_sql.text = "SELECT " \o Join(", ", insertable_cols)
                                        \o " FROM [dim].[Employees]"
            /\ insert_sql.text = "INSERT INTO [dim].[Employees] ("
                                    \o Join(", ", insertable_cols) \o ") VALUES ("
                                    \o Join(", ", [ i \in DOMAIN insertable_cols |-> "?" ])
                                    \o ")"
    /\ Issued("CREATE_TABLE")
         => \A k \in DOMAIN work.table.rows :
              work.table.rows[k].src_cols = work.table.rows[k].dst_cols

\* C7 witness: rows were copied over two stored columns with a computed
\* column between them
C7_Witness ==
    /\ pc = "done"
    /\ Len(cols) = 3
    /\ cols[2].is_computed
    /\ Len(insert_sql.cols) = 2
    /\ insert_sql.placeholders = 2
    /\ dst.table.rows # << >>

\* C8: the table builder emits one declaration clause per column, in column
\* order; the insertable set is the subsequence of the non-computed columns;
\* has-identity is true exactly when a non-computed column is an identity.
C8_BuilderOutputs ==
    pc \notin { "read_cols", "read_pk", "check_schema", "create_schema", "build", "failed" }
        => /\ Len(col_defs) = Len(cols)
           /\ \A i \in DOMAIN cols :
                col_defs[i] = IF cols[i].is_computed THEN ComputedClause(cols[i])
                              ELSE StoredClause(cols[i])
           /\ insertable_cols = Projection(cols)
           /\ \A i \in DOMAIN cols :
                cols[i].is_computed
                   <=> ~(\E k \in DOMAIN insertable_cols :
                            insertable_cols[k] = "[" \o cols[i].col_name \o "]")
           /\ has_identity <=> HasIdentityColumn(cols)

\* C8 witness: a table of three columns with a computed column first and an
\* identity column last was built
C8_Witness ==
    /\ pc = "drop_table"
    /\ Len(cols) = 3
    /\ cols[1].is_computed
    /\ cols[3].is_identity
    /\ Len(col_defs) = 3
    /\ Len(insertable_cols) = 2
    /\ has_identity

\* the primary key stage is over
PkStageOver == pc \in { "print", "done" }

\* C9: when the source table has no primary key the primary key stage
\* issues no statement, and the destination table (no other session
\* writing to it) has no primary key constraint when the stage is over.
C9_NoSourceKeyNoDdl ==
    src.pk = None
        => /\ ~Issued("ADD_PRIMARY_KEY")
           /\ ~Issued("SELECT_PK")
           /\ pc # "add_pk"
           /\ PkStageOver => (dst.table.exists /\ dst.table.pk = None /\ work = dst)

\* C9 witness: a run on a source without a key completed
C9_Witness ==
    /\ src.pk = None
    /\ pc = "done"
    /\ RowCount(dst.table.rows) > 0
    /\ dst.table.pk = None

\* C10: ALTER TABLE ADD CONSTRAINT PRIMARY KEY is issued at most once, and
\* only after the existence query returned no primary key; when the query
\* found a primary key, whatever its structure, the stage issues no DDL and
\* leaves that key as it is.
C10_PkAddedOnlyIfMissing ==
    /\ Cardinality(Places("ADD_PRIMARY_KEY")) <= 1
    /\ (Issued("ADD_PRIMARY_KEY") \/ pc = "add_pk")
         => /\ ~exists_pk
            /\ \E i \in Places("SELECT_PK") :
                 log[i].ok /\ \A j \in Places("ADD_PRIMARY_KEY") : i < j
    /\ exists_pk
         => /\ ~Issued("ADD_PRIMARY_KEY")
            /\ pc \in { "print", "done" }
            /\ dst.table.pk = Some(ForeignPk)
            /\ log[Len(log)] = Call("dst", "SELECT_PK", TRUE)

\* C10 witness: the run completed on a destination that had a primary key of
\* another structure when it was checked
C10_Witness ==
    /\ pc = "done"
    /\ pk_cols # << >>
    /\ exists_pk
    /\ dst.table.pk = Some(ForeignPk)
    /\ ~Issued("ADD_PRIMARY_KEY")


RECURSIVE KeyClause(_)
\* the column clause a key of these columns is declared by
KeyClause(key_cols) ==
    IF key_cols = << >> THEN ""
    ELSE "[" \o Head(key_cols).col_name \o "]"
         \o (IF Head(key_cols).is_descending_key THEN " DESC" ELSE " ASC")
         \o (IF Len(key_cols) > 1 THEN ", " ELSE "")
         \o KeyClause(Tail(key_cols))

CallsOfEveryRun == { "SELECT_COLUMNS", "SELECT_PK_INFO", "SELECT_SCHEMA", "DROP_TABLE",
                     "CREATE_TABLE", "SELECT_ROWS", "FETCH" }

\* C13: the row-count message is emitted only by a run in which introspection,
\* schema and table creation, the copy loop, the identity cleanup and the
\* primary key stage all completed without an error; a failing run emits none.
C13_MessageOnlyAfterCleanRun ==
    /\ pc = "failed" => printed = None
    /\ (\E i \in DOMAIN log : ~log[i].ok) => printed = None
    /\ printed # None
         => /\ pc = "done"
            /\ ~exc
            /\ \A i \in DOMAIN log : log[i].ok
            /\ \A op \in CallsOfEveryRun : Succeeded(op)
            /\ src.pk # None => Succeeded("SELECT_PK_COLS") /\ Succeeded("SELECT_PK")
            /\ ~pre.schema => \E i \in Places("CREATE_SCHEMA") : Committed(i)
            /\ \E i \in Places("CREATE_TABLE") : Committed(i)
            /\ dst.table.rows = FirstBatches(BatchesOf(src.nrows))
            /\ HasIdentityColumn(src.cols)
                 => (\E i \in Places("IDENTITY_INSERT_OFF") : Committed(i)) /\ ~identity_insert
            /\ src.pk # None => dst.table.pk # None
            /\ printed = Some("Copied " \o ToString(src.nrows) \o " rows to Dev.dim.Employees")
    /\ pc = "done" => printed # None

\* C13 witnesses: a run with identity cleanup and primary key stage printed
\* the message
C13_Witness ==
    /\ printed = Some("Copied 7000 rows to Dev.dim.Employees")
    /\ HasIdentityColumn(src.cols)
    /\ Issued("ADD_PRIMARY_KEY")


\* C17: CREATE SCHEMA is issued exactly when the existence query found no
\* schema of that name; it is then committed on its own, before the DROP and
\* CREATE TABLE statements; when the schema exists none is issued.
C17_SchemaCreatedIffMissing ==
    /\ Cardinality(Places("CREATE_SCHEMA")) <= 1
    /\ Issued("CREATE_SCHEMA") => (Succeeded("SELECT_SCHEMA") /\ ~pre.schema)
    /\ (Succeeded("SELECT_SCHEMA") /\ ~pre.schema)
         => (Issued("CREATE_SCHEMA") \/ pc = "create_schema")
    /\ pre.schema => (~Issued("CREATE_SCHEMA") /\ pc # "create_schema")
    /\ \A i \in Places("CREATE_SCHEMA") :
         /\ log[i - 1] = Call("dst", "SELECT_SCHEMA", TRUE)
         /\ log[i].ok => (i < Len(log) /\ log[i + 1].op = "COMMIT")
         /\ \A j \in Places("DROP_TABLE") \cup Places("CREATE_TABLE") :
              Committed(i) /\ j > i + 1
    /\ (pc \in { "build", "drop_table" } \/ Issued("DROP_TABLE"))
         => (dst.schema /\ work.schema)

\* C17 witness: a run on a destination without the schema created and
\* committed it and went on to drop and create the table
C17_Witness ==
    /\ ~pre.schema
    /\ \E i \in Places("CREATE_SCHEMA") : Committed(i)
    /\ Succeeded("DROP_TABLE")
    /\ Succeeded("CREATE_TABLE")
    /\ pc = "done"


\* the try block of lines 181-192 was entered
TryEntered == Issued("IDENTITY_INSERT_ON") \/ Issued("FETCH")

\* the try block and its finally block were left
TryLeft == TryEntered /\ pc \notin { "identity_on", "fetch", "insert", "finally" }

\* a batch whose insert or whose commit raised
FailedBatchPlaces ==
    { i \in DOMAIN log : /\ ~log[i].ok
                         /\ \/ log[i].op = "INSERT"
                            \/ log[i].op = "COMMIT" /\ log[i - 1].op = "INSERT" }

\* C19 as stated: when has_identity is true, SET IDENTITY_INSERT OFF followed
\* by a commit is executed exactly once on every exit of the try block.
C19_OffAndCommitOnEveryExit ==
    (TryLeft /\ has_identity)
        => /\ Cardinality(Places("IDENTITY_INSERT_OFF")) = 1
           /\ \A i \in Places("IDENTITY_INSERT_OFF") :
                i < Len(log) /\ log[i + 1].op = "COMMIT"

\* C19, amended: when has_identity is true, SET IDENTITY_INSERT OFF is issued
\* exactly once on every exit of the try block, also when the ON statement
\* itself failed, and a commit follows it unless the OFF statement raised;
\* it is never issued inside the try block. When has_identity is false
\* neither ON nor OFF is issued and nothing follows a failing batch.
C19_OffIssuedOncePerExit ==
    /\ (pc = "identity_on" \/ TryEntered) => has_identity = HasIdentityColumn(src.cols)
    /\ ~TryLeft => ~Issued("IDENTITY_INSERT_OFF")
    /\ (TryLeft /\ has_identity)
         => /\ Cardinality(Places("IDENTITY_INSERT_OFF")) = 1
            /\ \A i \in Places("IDENTITY_INSERT_OFF") :
                 /\ log[i].ok => (i < Len(log) /\ log[i + 1].op = "COMMIT")
                 /\ ~log[i].ok => (i = Len(log) /\ pc = "failed")
                 /\ Failed("IDENTITY_INSERT_ON")
                      => log[i - 1] = Call("dst", "IDENTITY_INSERT_ON", FALSE)
    /\ ~HasIdentityColumn(src.cols)
         => /\ ~Issued("IDENTITY_INSERT_ON")
            /\ ~Issued("IDENTITY_INSERT_OFF")
            /\ ~identity_insert
            /\ \A i \in FailedBatchPlaces : i = Len(log)
            /\ (pc = "failed" /\ FailedBatchPlaces # {}) => work = dst

\* C19 witness: SET IDENTITY_INSERT ON raised, and OFF and its commit were
\* executed all the same
C19_Witness ==
    /\ pc = "failed"
    /\ has_identity
    /\ Failed("IDENTITY_INSERT_ON")
    /\ \E i \in Places("IDENTITY_INSERT_OFF") : Committed(i)


\* rows_copied is the number of rows this run has committed at the destination
CountIsCommitted == rows_copied = RowCount(dst.table.rows)

\* rows_copied changes only by line 192: it grows by the size of the batch
\* just inserted, whose commit succeeded
CountGrowsAfterCommit ==
    rows_copied' # rows_copied
        => /\ pc = "insert"
           /\ pc' = "fetch"
           /\ BatchLen(rows) \in 1 .. BATCH
           /\ rows_copied' = rows_copied + BatchLen(rows)
           /\ log'[Len(log')] = Call("dst", "COMMIT", TRUE)
           /\ log'[Len(log') - 1] = Call("dst", "INSERT", TRUE)
           /\ RowCount(dst'.table.rows) = RowCount(dst.table.rows) + BatchLen(rows)

\* C20: at every evaluation of the loop head and when the loop is left,
\* rows_copied is the number of rows inserted and committed at the destination
\* in this run; it only grows, by the size of a batch, and only after the
\* commit of that batch succeeded.
C20_RowsCopiedCountsCommittedRows ==
    /\ [](pc \in { "fetch", "insert", "finally" } => CountIsCommitted)
    /\ [](LoopCompleted => rows_copied = src.nrows)
    /\ [][CountGrowsAfterCommit]_vars

\* C20 witness: at the loop head after two committed batches of a longer table
C20_Witness ==
    /\ pc = "fetch"
    /\ src.nrows = 12000
    /\ rows_copied = 10000
    /\ RowCount(dst.table.rows) = 10000


\* the string s ends with the string suffix
EndsWith(s, suffix) ==
    /\ Len(s) >= Len(suffix)
    /\ SubSeq(s, Len(s) - Len(suffix) + 1, Len(s)) = suffix

\* the column loop has formatted the type of the column of the source table
Formatted == pc = "drop_table"

\* the type name of the column, lower case
TypeName == Lower(src.cols[1].data_type)

\* C14: for a column of an unbounded variable-length type (varchar, nvarchar
\* or varbinary with max_length -1, and text, ntext, image), format_sql_type
\* returns a declaration ending in (MAX).
C14_UnboundedTypesEndInMax ==
    (/\ Formatted
     /\ \/ TypeName \in { "text", "ntext", "image" }
        \/ TypeName \in { "varchar", "nvarchar", "varbinary" }
             /\ src.cols[1].max_length = -1)
        => /\ EndsWith(sql_type, "(MAX)")
           /\ sql_type \in { "varchar(MAX)", "nvarchar(MAX)", "varbinary(MAX)" }
           /\ col_defs = << "[Value] " \o sql_type \o " NULL" >>

\* C14 witness: a legacy ntext column was declared nvarchar(MAX)
C14_Witness ==
    /\ Formatted
    /\ src.cols[1].data_type = "ntext"
    /\ sql_type = "nvarchar(MAX)"

\* the declaration is the type name with the length n in parentheses
DeclaresLength(n) == sql_type = TypeName \o "(" \o ToString(n) \o ")"

\* C15: for a wide-character column (nvarchar, nchar) of stored byte length
\* L the declared length is L/2; for the narrow and binary types (varchar,
\* char, varbinary, binary) it is L.
C15_WideLengthsHalved ==
    (Formatted /\ src.cols[1].max_length # -1)
        => /\ TypeName \in { "nvarchar", "nchar" }
                => \E n \in 0 .. 4000 : 2 * n = src.cols[1].max_length /\ DeclaresLength(n)
           /\ TypeName \in { "varchar", "char", "varbinary", "binary" }
                => DeclaresLength(src.cols[1].max_length)

\* C15 witness: an nvarchar column of 100 bytes was declared nvarchar(50)
C15_Witness ==
    /\ Formatted
    /\ src.cols[1].data_type = "NVARCHAR"
    /\ src.cols[1].max_length = 100
    /\ sql_type = "nvarchar(50)"

\* C16: for a datetime2, datetimeoffset or time column format_sql_type
\* returns type(scale), with scale 7 when the catalog scale is null or 0 and
\* the catalog scale otherwise.
C16_TemporalScaleDefaultsTo7 ==
    (Formatted /\ TypeName \in { "datetime2", "datetimeoffset", "time" })
        => /\ src.cols[1].scale \in { None, Some(0) } => DeclaresLength(7)
           /\ src.cols[1].scale \notin { None, Some(0) }
                => DeclaresLength(src.cols[1].scale[1])

\* C16 witness: a time column of catalog scale 0 was declared time(7)
C16_Witness ==
    /\ Formatted
    /\ src.cols[1].data_type = "time"
    /\ src.cols[1].scale = Some(0)
    /\ sql_type = "time(7)"


\* this run is the second: it started on what the first run left
SecondRun == pre \notin PreStates

\* this run has created the table and committed it
TableBuilt == \E i \in Places("CREATE_TABLE") : Committed(i)

InLoop == pc \in { "identity_on", "fetch", "insert" }

\* the run is at the primary key stage or has left by an exception
LoopOver == pc \in { "check_pk", "failed" }

\* a call of the try block raised
LoopErrorPlaces ==
    { i \in DOMAIN log : /\ ~log[i].ok
                         /\ \/ log[i].op \in { "IDENTITY_INSERT_ON", "FETCH", "INSERT" }
                            \/ log[i].op = "COMMIT" /\ log[i - 1].op = "INSERT" }

\* a table of n rows is fetched at most once per batch and once more for the
\* empty fetch, and nothing is fetched or inserted after an error
FetchesBounded ==
    /\ Cardinality(Places("FETCH")) <= BatchesOf(src.nrows) + 1
    /\ Cardinality(Places("INSERT")) <= BatchesOf(src.nrows)
    /\ cursor <= src.nrows
    /\ \A i \in LoopErrorPlaces :
         \A j \in Places("FETCH") \cup Places("INSERT") : j <= i

\* the fetch that returns no rows, and every call that raises, ends the loop,
\* and a loop that has ended is not entered again
LoopLeftForGood ==
    /\ (pc = "fetch" /\ BatchLen(rows') = 0) => (pc' = "finally")
    /\ (InLoop /\ log'[Len(log')].ok = FALSE) => (pc' = "finally" /\ exc')
    /\ ~InLoop' \/ InLoop \/ pc = "build_insert"

\* C18: for every finite source table the copy loop ends: it stops at the
\* first empty fetch or at the first error, it never fetches again after an
\* empty fetch, and the run then reaches the primary key stage or a failure
\* exit.
C18_CopyLoopEnds ==
    /\ []FetchesBounded
    /\ [][LoopLeftForGood]_vars
    /\ InLoop ~> LoopOver

\* C18 witness: the loop over 12000 rows ended on the fourth, empty fetch and
\* the run is at the primary key stage
C18_Witness ==
    /\ pc = "check_pk"
    /\ src.nrows = 12000
    /\ Cardinality(Places("FETCH")) = 4
    /\ BatchLen(rows) = 0
    /\ cursor = 12000

====
